---- MODULE Spec2Model ----
(***************************************************************************)
(* Image-resolution cascade of rss_to_wp/images/rss_extractor.py:          *)
(* is_valid_image_url, extract_first_image_from_html, find_rss_image and   *)
(* scrape_image_from_url.                                                  *)
(*                                                                         *)
(* A Python str is modelled as a sequence of one-character strings, so     *)
(* that urlparse, str.lower, str.endswith, str.startswith, `in` and        *)
(* urljoin are computed character by character.  None is the one-element   *)
(* sequence <<"None">>, which no str equals (its element is not a          *)
(* character).                                                             *)
(***************************************************************************)
EXTENDS Integers, Sequences, FiniteSets, TLC

VARIABLES
    fn,         \* the function that was called
    pc,         \* position inside the call
    url,        \* argument of is_valid_image_url / scrape_image_from_url
    entry,      \* argument of find_rss_image
    html,       \* argument of extract_first_image_from_html
    base_url,   \* argument of find_rss_image / extract_first_image_from_html
    response,   \* what requests.get / raise_for_status / BeautifulSoup give
    requests,   \* number of requests.get calls issued by the call
    image_url,  \* the local image_url / the value returned
    verdict,    \* the bool is_valid_image_url returned
    raised,     \* TRUE when an exception left the function
    consulted,  \* the tiers whose body the call entered, in order
    log         \* the logger events of the call, in order

vars == <<fn, pc, url, entry, html, base_url, response, requests, image_url,
          verdict, raised, consulted, log>>

(***************************************************************************)
(* Bounds of the model.                                                    *)
(***************************************************************************)
MaxParts == 4
MaxItems == 2
MaxImgs == 2
MaxHeroes == 2

(***************************************************************************)
(* str primitives.                                                         *)
(***************************************************************************)
None == <<"None">>

UpperCase == <<"A","B","C","D","E","F","G","H","I","J","K","L","M",
               "N","O","P","Q","R","S","T","U","V","W","X","Y","Z">>
LowerCase == <<"a","b","c","d","e","f","g","h","i","j","k","l","m",
               "n","o","p","q","r","s","t","u","v","w","x","y","z">>
Digits == {"0","1","2","3","4","5","6","7","8","9"}

Range(s) == {s[i] : i \in 1..Len(s)}

Min(S) == CHOOSE m \in S : \A n \in S : m <= n

IsAlpha(c) == c \in Range(UpperCase) \cup Range(LowerCase)

LowerChar(c) ==
    IF c \in Range(UpperCase)
    THEN LowerCase[CHOOSE i \in 1..26 : UpperCase[i] = c]
    ELSE c

\* str.lower()
Lower(s) == [i \in 1..Len(s) |-> LowerChar(s[i])]

\* str.startswith(p)
StartsWith(s, p) == Len(p) <= Len(s) /\ SubSeq(s, 1, Len(p)) = p

\* str.endswith(p)
EndsWith(s, p) == Len(p) <= Len(s) /\ SubSeq(s, Len(s) - Len(p) + 1, Len(s)) = p

\* p in s
Contains(s, p) ==
    \E i \in 1..(Len(s) - Len(p) + 1) : SubSeq(s, i, i + Len(p) - 1) = p

\* s.find(c, start), 1-based; 0 when c does not occur
Find(s, c, start) ==
    LET I == {i \in start..Len(s) : s[i] = c}
    IN  IF I = {} THEN 0 ELSE Min(I)

\* s.rfind(c), 1-based; 0 when c does not occur
RFind(s, c) ==
    LET I == {i \in 1..Len(s) : s[i] = c}
    IN  IF I = {} THEN 0 ELSE CHOOSE m \in I : \A n \in I : n <= m

From(s, i) == SubSeq(s, i, Len(s))

(***************************************************************************)
(* The string literals of the module.                                      *)
(***************************************************************************)
HttpPrefix == <<"h","t","t","p",":","/","/">>
HttpsPrefix == <<"h","t","t","p","s",":","/","/">>

IMAGE_EXTENSIONS ==
    { <<".","j","p","g">>, <<".","j","p","e","g">>, <<".","p","n","g">>,
      <<".","g","i","f">>, <<".","w","e","b","p">>, <<".","b","m","p">> }

IMAGE_MIME_TYPES == {"image/jpeg", "image/png", "image/gif", "image/webp", "image/bmp"}

known_image_hosts ==
    { <<"p","e","x","e","l","s",".","c","o","m">>,
      <<"u","n","s","p","l","a","s","h",".","c","o","m">>,
      <<"c","l","o","u","d","i","n","a","r","y",".","c","o","m">>,
      <<"i","m","g","i","x",".","n","e","t">>,
      <<"w","p",".","c","o","m">>,
      <<"w","o","r","d","p","r","e","s","s",".","c","o","m">>,
      <<"f","l","i","c","k","r",".","c","o","m">>,
      <<"s","t","a","t","i","c","f","l","i","c","k","r",".","c","o","m">> }

skip_patterns ==
    { <<"p","i","x","e","l">>, <<"s","p","a","c","e","r">>, <<"b","l","a","n","k">>,
      <<"1","x","1">>, <<"t","r","a","c","k","i","n","g">>, <<"b","e","a","c","o","n">>,
      <<"a","n","a","l","y","t","i","c","s">>, <<"g","r","a","v","a","t","a","r">>,
      <<"a","v","a","t","a","r">> }

(***************************************************************************)
(* urllib.parse.urlparse, as is_valid_image_url uses it.                   *)
(***************************************************************************)
scheme_chars == Range(UpperCase) \cup Range(LowerCase) \cup Digits \cup {"+", "-", "."}

\* The schemes of urllib's uses_params that end a path at ";".
uses_params == { <<>>, <<"h","t","t","p">>, <<"h","t","t","p","s">>, <<"f","t","p">> }

\* urlsplit's scheme test: a ":" after a run of scheme characters that
\* starts with a letter.  The position of the ":" or 0.
SchemeEnd(u) ==
    LET i == Find(u, ":", 1)
    IN  IF i > 1 /\ IsAlpha(u[1]) /\ \A k \in 1..(i - 1) : u[k] \in scheme_chars
        THEN i ELSE 0

\* _splitnetloc(url, 2): the first of "/", "?", "#" from the third character on.
NetlocEnd(r) ==
    LET D == {Find(r, c, 3) : c \in {"/", "?", "#"}} \ {0}
    IN  IF D = {} THEN Len(r) + 1 ELSE Min(D)

\* _splitparams: the position of the ";" that ends the path, or 0
ParamsAt(p) ==
    IF Find(p, "/", 1) > 0 THEN Find(p, ";", RFind(p, "/")) ELSE Find(p, ";", 1)

\* url.split(c, 1)[0] and [1] when c is in url, else url and ""
Before(s, c) == IF Find(s, c, 1) > 0 THEN SubSeq(s, 1, Find(s, c, 1) - 1) ELSE s
After(s, c) == IF Find(s, c, 1) > 0 THEN From(s, Find(s, c, 1) + 1) ELSE <<>>

\* urlparse's result.  ok is FALSE when urlsplit raises ValueError ("Invalid
\* IPv6 URL"): an unmatched bracket in the netloc; a matched pair must hold
\* an IP literal, which needs hexadecimal digits and ":" between them.
\* s is the position of the ";" that splits path and params, or 0.
ParseResult(scheme, netloc, r, s, query, fragment) ==
    [ok |-> ~("[" \in Range(netloc) \/ "]" \in Range(netloc)),
     scheme |-> scheme, netloc |-> netloc,
     path |-> IF s > 0 THEN SubSeq(r, 1, s - 1) ELSE r,
     params |-> IF s > 0 THEN From(r, s + 1) ELSE <<>>,
     query |-> query, fragment |-> fragment]

\* urlparse: "if scheme in uses_params and ';' in url"
SplitPath(scheme, netloc, r, query, fragment) ==
    ParseResult(scheme, netloc, r, IF scheme \in uses_params THEN ParamsAt(r) ELSE 0,
                query, fragment)

\* urlsplit: "if '?' in url"
SplitQuery(scheme, netloc, r, fragment) ==
    SplitPath(scheme, netloc, Before(r, "?"), After(r, "?"), fragment)

\* urlsplit: "if allow_fragments and '#' in url"
SplitFragment(scheme, netloc, r) ==
    SplitQuery(scheme, netloc, Before(r, "#"), After(r, "#"))

\* urlsplit: "if url[:2] == '//'"
SplitNetloc(scheme, r) ==
    SplitFragment(scheme,
                  IF StartsWith(r, <<"/", "/">>) THEN SubSeq(r, 3, NetlocEnd(r) - 1) ELSE <<>>,
                  IF StartsWith(r, <<"/", "/">>) THEN From(r, NetlocEnd(r)) ELSE r)

\* urlsplit: the scheme, i the position SchemeEnd gives
SplitScheme(u, default, i) ==
    SplitNetloc(IF i > 0 THEN Lower(SubSeq(u, 1, i - 1)) ELSE default,
                IF i > 0 THEN From(u, i + 1) ELSE u)

\* urlparse(url, scheme)
urlparse2(u, default) == SplitScheme(u, default, SchemeEnd(u))

urlparse(u) == urlparse2(u, <<>>)

(***************************************************************************)
(* urllib.parse.urljoin                                                    *)
(***************************************************************************)
\* The schemes of uses_relative and uses_netloc that the inputs can spell.
uses_relative == { <<>>, <<"h","t","t","p">>, <<"h","t","t","p","s">>, <<"f","t","p">> }
uses_netloc == uses_relative

RECURSIVE Split(_, _)
Split(s, c) ==
    IF Find(s, c, 1) = 0 THEN <<s>>
    ELSE <<SubSeq(s, 1, Find(s, c, 1) - 1)>> \o Split(From(s, Find(s, c, 1) + 1), c)

RECURSIVE Join(_, _)
Join(segs, c) ==
    IF segs = <<>> THEN <<>>
    ELSE IF Len(segs) = 1 THEN segs[1]
    ELSE segs[1] \o <<c>> \o Join(Tail(segs), c)

RECURSIVE DropEmpty(_)
DropEmpty(segs) ==
    IF segs = <<>> THEN <<>>
    ELSE IF Head(segs) = <<>> THEN DropEmpty(Tail(segs))
    ELSE <<Head(segs)>> \o DropEmpty(Tail(segs))

\* segments[1:-1] = filter(None, segments[1:-1])
FilterMiddle(segs) ==
    IF Len(segs) < 3 THEN segs
    ELSE <<segs[1]>> \o DropEmpty(SubSeq(segs, 2, Len(segs) - 1)) \o <<segs[Len(segs)]>>

\* the loop over segments: ".." pops, "." is dropped
RECURSIVE ResolveDots(_, _)
ResolveDots(segs, acc) ==
    IF segs = <<>> THEN acc
    ELSE ResolveDots(Tail(segs),
             IF Head(segs) = <<".", ".">>
             THEN (IF acc = <<>> THEN acc ELSE SubSeq(acc, 1, Len(acc) - 1))
             ELSE IF Head(segs) = <<".">> THEN acc
             ELSE Append(acc, Head(segs)))

\* urlunsplit: the "//netloc" part in front of the path
WithNetloc(scheme, netloc, p) ==
    IF netloc # <<>> \/ (scheme # <<>> /\ scheme \in uses_netloc /\ ~StartsWith(p, <<"/", "/">>))
    THEN <<"/", "/">> \o netloc \o (IF p # <<>> /\ p[1] # "/" THEN <<"/">> \o p ELSE p)
    ELSE p

urlunparse(scheme, netloc, path, params, query, fragment) ==
    (IF scheme # <<>> THEN scheme \o <<":">> ELSE <<>>)
    \o WithNetloc(scheme, netloc, IF params # <<>> THEN path \o <<";">> \o params ELSE path)
    \o (IF query # <<>> THEN <<"?">> \o query ELSE <<>>)
    \o (IF fragment # <<>> THEN <<"#">> \o fragment ELSE <<>>)

\* base_parts: bpath.split('/') without a last item that is no directory
BaseParts(bp) == IF bp[Len(bp)] # <<>> THEN SubSeq(bp, 1, Len(bp) - 1) ELSE bp

\* the segments to resolve
Segments(bpath, path) ==
    IF path # <<>> /\ path[1] = "/" THEN Split(path, "/")
    ELSE FilterMiddle(BaseParts(Split(bpath, "/")) \o Split(path, "/"))

\* '/'.join(resolved_path) or '/'
ResolvedPath(segments) ==
    IF Join(ResolveDots(segments, <<>>)
              \o (IF segments[Len(segments)] \in {<<".">>, <<".", ".">>}
                  THEN << <<>> >> ELSE <<>>), "/") = <<>>
    THEN <<"/">>
    ELSE Join(ResolveDots(segments, <<>>)
                \o (IF segments[Len(segments)] \in {<<".">>, <<".", ".">>}
                    THEN << <<>> >> ELSE <<>>), "/")

\* urljoin once both are parsed: u the reference, b and r the parsed base
\* and reference
JoinParsed(u, b, r) ==
    IF r.scheme # b.scheme \/ r.scheme \notin uses_relative THEN u
    ELSE IF r.scheme \in uses_netloc /\ r.netloc # <<>>
    THEN urlunparse(r.scheme, r.netloc, r.path, r.params, r.query, r.fragment)
    ELSE IF r.path = <<>> /\ r.params = <<>>
    THEN urlunparse(r.scheme, IF r.scheme \in uses_netloc THEN b.netloc ELSE r.netloc,
                    b.path, b.params, IF r.query = <<>> THEN b.query ELSE r.query,
                    r.fragment)
    ELSE urlunparse(r.scheme, IF r.scheme \in uses_netloc THEN b.netloc ELSE r.netloc,
                    ResolvedPath(Segments(b.path, r.path)), r.params, r.query, r.fragment)

JoinChecked(u, b, r) ==
    IF ~r.ok THEN [ok |-> FALSE, value |-> <<>>]
    ELSE [ok |-> TRUE, value |-> JoinParsed(u, b, r)]

JoinBase(u, b) ==
    IF ~b.ok THEN [ok |-> FALSE, value |-> <<>>]
    ELSE JoinChecked(u, b, urlparse2(u, b.scheme))

\* urljoin(base, url): [ok |-> FALSE] when urlparse raises, else the joined str.
urljoin(base, u) ==
    IF base = <<>> THEN [ok |-> TRUE, value |-> u]
    ELSE IF u = <<>> THEN [ok |-> TRUE, value |-> base]
    ELSE JoinBase(u, urlparse2(base, <<>>))

(***************************************************************************)
(* is_valid_image_url                                                      *)
(***************************************************************************)
\* A validator that looks for the extension in the path and the query.
ExtensionPathAndQuery(parsed) == Lower(parsed.path \o parsed.query)

\* lines 126-129: the extension check reads the parsed path
ExtensionPath(parsed) == Lower(parsed.path)

\* lines 143-145: the host check reads the parsed netloc
HostText(parsed) == Lower(parsed.netloc)

\* lines 122-147, parsed being urlparse(url)
ValidParsed(parsed) ==
    IF ~parsed.ok THEN FALSE
    ELSE IF parsed.scheme = <<>> \/ parsed.netloc = <<>> THEN FALSE
    ELSE IF \E ext \in IMAGE_EXTENSIONS : EndsWith(ExtensionPath(parsed), ext) THEN TRUE
    ELSE IF \E host \in known_image_hosts : Contains(HostText(parsed), host) THEN TRUE
    ELSE FALSE

is_valid_image_url(u) ==
    IF u = <<>> \/ u = None THEN FALSE ELSE ValidParsed(urlparse(u))

(***************************************************************************)
(* dict.get(key, "") and truthiness                                        *)
(***************************************************************************)
\* d.get(key, ""): an absent key (None here) reads as ""
Get(v) == IF v = None THEN <<>> ELSE v

\* bool(x) of an Optional[str]
Truthy(x) == x # None /\ x # <<>>

Event(name) == [event |-> name, selector |-> 0]

(***************************************************************************)
(* extract_first_image_from_html                                           *)
(*                                                                         *)
(* An HTML text is the sequence of its nodes: "" is the empty sequence,    *)
(* an <img> carries its src and data-src attributes (None: no such         *)
(* attribute), and a "malformed" node is markup on which BeautifulSoup     *)
(* raises.                                                                 *)
(***************************************************************************)
\* soup.find_all("img")
RECURSIVE find_all_img(_)
find_all_img(doc) ==
    IF doc = <<>> THEN <<>>
    ELSE IF Head(doc).tag = "img" THEN <<Head(doc)>> \o find_all_img(Tail(doc))
    ELSE find_all_img(Tail(doc))

\* BeautifulSoup(html, "html.parser") raises
ParseRaises(doc) == \E i \in 1..Len(doc) : doc[i].tag = "malformed"

\* line 271
Skipped(src) == \E pattern \in skip_patterns : Contains(Lower(src), pattern)

\* line 275 / line 92: src.startswith(("http://", "https://"))
IsAbsolute(src) == StartsWith(src, HttpPrefix) \/ StartsWith(src, HttpsPrefix)

\* line 255: the attribute the extractor reads
ExtractSource(img) == Get(img.src)

\* lines 274-276: the candidate of an <img>, base_url applied
Resolved(src, base) ==
    IF base # <<>> /\ ~IsAbsolute(src) THEN urljoin(base, src)
    ELSE [ok |-> TRUE, value |-> src]

\* lines 255-280: what one <img> does to the scan: "take" (return the
\* candidate), "raise" (urljoin raised: the except clause of line 282 is
\* entered and the function returns None) or "next"
ImgStep(src, joined) ==
    IF src = <<>> THEN "next"
    ELSE IF Skipped(src) THEN "next"
    ELSE IF ~joined.ok THEN "raise"
    ELSE IF is_valid_image_url(joined.value) THEN "take"
    ELSE "next"

\* lines 254-280: the loop over the <img> elements
RECURSIVE ScanImgs(_, _)
ScanImgs(imgs, base) ==
    IF imgs = <<>> THEN None
    ELSE IF ImgStep(ExtractSource(Head(imgs)), Resolved(ExtractSource(Head(imgs)), base)) = "take"
    THEN Resolved(ExtractSource(Head(imgs)), base).value
    ELSE IF ImgStep(ExtractSource(Head(imgs)), Resolved(ExtractSource(Head(imgs)), base)) = "raise"
    THEN None
    ELSE ScanImgs(Tail(imgs), base)

\* lines 254-280: the loop ends in urljoin's exception
RECURSIVE ScanRaises(_, _)
ScanRaises(imgs, base) ==
    IF imgs = <<>> THEN FALSE
    ELSE IF ImgStep(ExtractSource(Head(imgs)), Resolved(ExtractSource(Head(imgs)), base)) = "take"
    THEN FALSE
    ELSE IF ImgStep(ExtractSource(Head(imgs)), Resolved(ExtractSource(Head(imgs)), base)) = "raise"
    THEN TRUE
    ELSE ScanRaises(Tail(imgs), base)

extract_first_image_from_html(doc, base) ==
    IF ParseRaises(doc) THEN None ELSE ScanImgs(find_all_img(doc), base)

\* lines 279 and 283: the logger events of one call of the extractor
ExtractEvents(doc, base) ==
    IF ParseRaises(doc) \/ ScanRaises(find_all_img(doc), base)
    THEN <<Event("html_image_extraction_error")>>
    ELSE IF extract_first_image_from_html(doc, base) # None
    THEN <<Event("found_html_image")>>
    ELSE <<>>

(***************************************************************************)
(* find_rss_image, tier by tier.  A field of the entry is                  *)
(* [present |-> "key in entry", items or value |-> entry[key]].            *)
(***************************************************************************)
\* "key in entry and entry[key]"
HasItems(field) == field.present /\ field.items # <<>>

\* A scan that breaks at an image-typed descriptor whose url is rejected.
MediaStepStop(media) ==
    IF media.type \in IMAGE_MIME_TYPES \/ media.medium = "image"
    THEN (IF is_valid_image_url(Get(media.url)) THEN "take" ELSE "stop")
    ELSE (IF is_valid_image_url(Get(media.url)) THEN "take" ELSE "next")

\* lines 179-187: what one media descriptor does to the scan:
\* "take" (assign and break), "stop" (break without a url) or "next".
MediaStep(media) ==
    IF media.type \in IMAGE_MIME_TYPES \/ media.medium = "image"
    THEN (IF is_valid_image_url(Get(media.url)) THEN "take" ELSE "next")
    ELSE (IF is_valid_image_url(Get(media.url)) THEN "take" ELSE "next")

\* lines 173-187
RECURSIVE ScanMediaContent(_)
ScanMediaContent(items) ==
    IF items = <<>> THEN None
    ELSE LET step == MediaStep(Head(items))
         IN  IF step = "take" THEN Get(Head(items).url)
             ELSE IF step = "stop" THEN None
             ELSE ScanMediaContent(Tail(items))

\* lines 191-196
RECURSIVE ScanThumbnails(_)
ScanThumbnails(items) ==
    IF items = <<>> THEN None
    ELSE IF is_valid_image_url(Get(Head(items).url)) THEN Get(Head(items).url)
    ELSE ScanThumbnails(Tail(items))

\* line 202: enclosure.get("href", "") or enclosure.get("url", "")
EnclosureUrl(enclosure) ==
    IF Get(enclosure.href) # <<>> THEN Get(enclosure.href) ELSE Get(enclosure.url)

\* lines 203-204
EnclosureTaken(enclosure) ==
    (enclosure.type \in IMAGE_MIME_TYPES \/ is_valid_image_url(EnclosureUrl(enclosure)))
    /\ EnclosureUrl(enclosure) # <<>>

\* lines 200-207
RECURSIVE ScanEnclosures(_)
ScanEnclosures(items) ==
    IF items = <<>> THEN None
    ELSE IF EnclosureTaken(Head(items)) THEN EnclosureUrl(Head(items))
    ELSE ScanEnclosures(Tail(items))

\* A links tier that takes the href of any link.
LinkTakenUntyped(link) == Get(link.href) # <<>>

\* lines 212-214
LinkTaken(link) == link.type \in IMAGE_MIME_TYPES /\ Get(link.href) # <<>>

\* lines 211-217
RECURSIVE ScanLinks(_)
ScanLinks(items) ==
    IF items = <<>> THEN None
    ELSE IF LinkTaken(Head(items)) THEN Get(Head(items).href)
    ELSE ScanLinks(Tail(items))

\* lines 221-227: the HTML text the fifth tier scans
html_content(e) ==
    IF HasItems(e.content) THEN e.content.items[1].value
    ELSE IF e.summary.present THEN e.summary.value
    ELSE IF e.description.present THEN e.description.value
    ELSE <<>>

\* lines 229-230
HtmlTier(e, base) ==
    IF html_content(e) # <<>>
    THEN extract_first_image_from_html(html_content(e), base)
    ELSE None

\* A tier guard without "not image_url".
TierEnteredAlways(current, field) == HasItems(field)

\* The guard "not image_url and key in entry and entry[key]" of lines
\* 190, 199 and 210 (line 172 has no "not image_url": image_url is None).
TierEntered(current, field) == ~Truthy(current) /\ HasItems(field)

(***************************************************************************)
(* scrape_image_from_url.  The response is what the network and the HTML   *)
(* parser give for the url: outcome "ok" or the exception raised, and for  *)
(* a parsed page the result of each query the function makes of the soup.  *)
(***************************************************************************)
hero_selectors ==
    << ".hero-image img", ".featured-image img", ".article-image img",
       ".story-image img", "article img", ".post-thumbnail img",
       ".wp-post-image", "figure img" >>

\* requests.get raises Timeout or ConnectionError, raise_for_status raises
\* HTTPError: all three are requests.RequestException.
RequestExceptions == {"Timeout", "ConnectionError", "HTTPError"}

\* The exceptions a call can meet: those, what BeautifulSoup raises, and
\* urljoin's ValueError.
ExceptionKinds == RequestExceptions \cup {"ParseError", "ValueError"}

\* A handler with the RequestException clause only.
CaughtRequestOnly(kind) == kind \in RequestExceptions

\* lines 101 and 104: the two except clauses
Caught(kind) == kind \in RequestExceptions \/ kind \in ExceptionKinds

ExceptEvent(kind) ==
    IF kind \in RequestExceptions THEN "image_scrape_request_error" ELSE "image_scrape_error"

\* lines 60-61 / 68-69: "meta and meta.get('content')", then meta["content"]
MetaContent(meta) == IF meta.found /\ Truthy(meta.content) THEN meta.content ELSE None

\* A meta tier that returns the content without validating it.
MetaTierUnvalidated(meta) == MetaContent(meta)

\* lines 60-64 / 68-72: the candidate a meta tier returns, or None
MetaTier(meta) ==
    IF MetaContent(meta) # None /\ is_valid_image_url(MetaContent(meta))
    THEN MetaContent(meta) ELSE None

\* line 89: img.get("src") or img.get("data-src")
HeroSource(img) == IF Truthy(img.src) THEN img.src ELSE img.data_src

\* lines 92-93
HeroResolved(src, page_url) ==
    IF IsAbsolute(src) THEN [ok |-> TRUE, value |-> src] ELSE urljoin(page_url, src)

\* lines 87-96: what one selector does to the scan, joined being the
\* resolved source: "take" (return the candidate), "raise" (urljoin raised)
\* or "next"
HeroStep(img, joined) ==
    IF ~img.found THEN "next"
    ELSE IF ~Truthy(HeroSource(img)) THEN "next"
    ELSE IF ~joined.ok THEN "raise"
    ELSE IF is_valid_image_url(joined.value) THEN "take"
    ELSE "next"

HeroResult(status, value, selector) == [status |-> status, value |-> value, selector |-> selector]

\* lines 86-96: the loop over hero_selectors from selector i on
RECURSIVE ScanHeroes(_, _, _)
ScanHeroes(hero, i, page_url) ==
    IF i > Len(hero_selectors) THEN HeroResult("none", None, 0)
    ELSE IF HeroStep(hero[i], HeroResolved(HeroSource(hero[i]), page_url)) = "take"
    THEN HeroResult("found", HeroResolved(HeroSource(hero[i]), page_url).value, i)
    ELSE IF HeroStep(hero[i], HeroResolved(HeroSource(hero[i]), page_url)) = "raise"
    THEN HeroResult("raise", None, i)
    ELSE ScanHeroes(hero, i + 1, page_url)

\* A fetch that tries again after a request error.
FetchCallsRetry(outcome) == IF outcome \in RequestExceptions THEN 2 ELSE 1

\* lines 46-53: the requests.get calls the try block issues, whatever the
\* outcome of the first one
FetchCalls(outcome) == 1

(***************************************************************************)
(* The inputs of the model.                                                *)
(***************************************************************************)
RECURSIVE SeqsUpTo(_, _)
SeqsUpTo(S, n) ==
    IF n = 0 THEN {<<>>}
    ELSE LET T == SeqsUpTo(S, n - 1) IN T \cup {Append(t, x) : t \in T, x \in S}

\* The pieces urls are put together from, for is_valid_image_url.
Parts ==
    { HttpsPrefix, <<"h","t","t","p","s",":">>, <<"/","/">>, <<"/">>, <<"?">>, <<"[">>,
      <<"c","d","n">>, <<"W","p",".","c","o","m">>, <<".","j","p","g">>, <<".","P","N","G">> }

RECURSIVE Concats(_)
Concats(n) ==
    IF n = 0 THEN {<<>>}
    ELSE LET T == Concats(n - 1) IN T \cup {t \o p : t \in T, p \in Parts}

UrlInputs == Concats(MaxParts)

Cdn(name) == HttpsPrefix \o <<"c","d","n","/">> \o name \o <<".","j","p","g">>
McJpg == Cdn(<<"m">>)
McJpg2 == Cdn(<<"m","m">>)
ThJpg == Cdn(<<"t">>)
ThJpg2 == Cdn(<<"t","t">>)
EncJpg == Cdn(<<"e">>)
EncJpg2 == Cdn(<<"e","e">>)
LnkJpg == Cdn(<<"l">>)
ImgJpg == Cdn(<<"i">>)
ImgJpg2 == Cdn(<<"i","i">>)
SumJpg == Cdn(<<"s">>)
DescJpg == Cdn(<<"d">>)
OgJpg == Cdn(<<"o">>)
TwJpg == Cdn(<<"w">>)
RelJpg == <<"/","r",".","j","p","g">>
NoExt == HttpsPrefix \o <<"c","d","n","/","x">>
WpHost == HttpsPrefix \o <<"i",".","w","p",".","c","o","m","/","x">>
Pixel == HttpsPrefix \o <<"c","d","n","/","P","i","x","e","l",".","g","i","f">>
BadRef == <<"/","/","[">>
Base == HttpsPrefix \o <<"s","i","t","e","/","n","/","p">>

\* HTML nodes
TextNode == [tag |-> "text", src |-> None, data_src |-> None]
MalformedNode == [tag |-> "malformed", src |-> None, data_src |-> None]
Img(src) == [tag |-> "img", src |-> src, data_src |-> None]
LazyImg(data_src) == [tag |-> "img", src |-> None, data_src |-> data_src]

Nodes ==
    { TextNode, MalformedNode, LazyImg(ImgJpg2) }
    \cup { Img(s) : s \in {<<>>, ImgJpg, ImgJpg2, Pixel, RelJpg, NoExt, BadRef} }

HtmlInputs == SeqsUpTo(Nodes, MaxImgs)

\* entry fields
Absent == [present |-> FALSE, items |-> <<>>]
List(items) == [present |-> TRUE, items |-> items]
AbsentText == [present |-> FALSE, value |-> <<>>]
Text(v) == [present |-> TRUE, value |-> v]

Media(u, t, m) == [url |-> u, type |-> t, medium |-> m]
Thumb(u) == [url |-> u]
Enclosure(t, h, u) == [type |-> t, href |-> h, url |-> u]
Link(t, h) == [type |-> t, href |-> h]
Content(v) == [value |-> v]

Entry(mc, th, enc, lnk, c, s, d) ==
    [media_content |-> mc, media_thumbnail |-> th, enclosures |-> enc, links |-> lnk,
     content |-> c, summary |-> s, description |-> d]

NoEntry == Entry(Absent, Absent, Absent, Absent, Absent, AbsentText, AbsentText)

\* Entries in which every tier is missing, empty, barren or fruitful.
CascadeEntries ==
    { Entry(mc, th, enc, lnk, c, s, d) :
        mc \in {Absent, List(<<>>), List(<<Media(NoExt, "", "")>>),
                List(<<Media(McJpg, "", "image")>>)},
        th \in {Absent, List(<<>>), List(<<Thumb(NoExt)>>), List(<<Thumb(ThJpg)>>)},
        enc \in {Absent, List(<<>>), List(<<Enclosure("audio/mpeg", NoExt, None)>>),
                 List(<<Enclosure("image/png", EncJpg, None)>>)},
        lnk \in {Absent, List(<<>>), List(<<Link("text/html", Base)>>),
                 List(<<Link("image/jpeg", LnkJpg)>>)},
        c \in {Absent, List(<<>>), List(<<Content(<<>>)>>), List(<<Content(<<TextNode>>)>>),
               List(<<Content(<<Img(ImgJpg)>>)>>)},
        s \in {AbsentText, Text(<<>>), Text(<<Img(SumJpg)>>)},
        d \in {AbsentText, Text(<<>>), Text(<<Img(DescJpg)>>)} }

\* Entries with one populated list of up to MaxItems descriptors.
MediaDescriptors ==
    { Media(u, k[1], k[2]) : u \in {None, McJpg, McJpg2, NoExt},
                             k \in {<<"", "">>, <<"image/jpeg", "">>, <<"", "image">>} }
ThumbDescriptors == { Thumb(u) : u \in {None, ThJpg, ThJpg2, NoExt, RelJpg} }
EnclosureDescriptors ==
    { Enclosure(t, h, u) : t \in {"audio/mpeg", "image/png"}, h \in {None, EncJpg, RelJpg},
                           u \in {None, EncJpg2} }
LinkDescriptors ==
    { Link(t, h) : t \in {"text/html", "image/jpeg"}, h \in {None, LnkJpg, RelJpg, NoExt} }

MediaEntries ==
    { Entry(List(items), th, Absent, Absent, Absent, AbsentText, AbsentText) :
        items \in SeqsUpTo(MediaDescriptors, MaxItems),
        th \in {Absent, List(<<Thumb(ThJpg)>>)} }
ThumbEntries ==
    { Entry(Absent, List(items), Absent, Absent, Absent, AbsentText, AbsentText) :
        items \in SeqsUpTo(ThumbDescriptors, MaxItems) }
EnclosureEntries ==
    { Entry(Absent, Absent, List(items), lnk, Absent, AbsentText, AbsentText) :
        items \in SeqsUpTo(EnclosureDescriptors, MaxItems),
        lnk \in {Absent, List(<<Link("image/jpeg", LnkJpg)>>)} }
LinkEntries ==
    { Entry(Absent, Absent, Absent, List(items), Absent, AbsentText, AbsentText) :
        items \in SeqsUpTo(LinkDescriptors, MaxItems) }
HtmlEntries ==
    { Entry(Absent, Absent, Absent, Absent, List(<<Content(doc)>>), AbsentText, AbsentText) :
        doc \in HtmlInputs }

\* A fetched page: the first match of each query, if any.
NoMeta == [found |-> FALSE, content |-> None]
Meta(content) == [found |-> TRUE, content |-> content]
NoElement == [found |-> FALSE, src |-> None, data_src |-> None]
Element(src, data_src) == [found |-> TRUE, src |-> src, data_src |-> data_src]

Page(og, tw, hero) == [outcome |-> "ok", og |-> og, tw |-> tw, hero |-> hero]
NoHero == [i \in 1..Len(hero_selectors) |-> NoElement]
Failure(kind) == [outcome |-> kind, og |-> NoMeta, tw |-> NoMeta, hero |-> NoHero]

MetaOptions == {NoMeta, Meta(None), Meta(<<>>), Meta(OgJpg), Meta(NoExt), Meta(WpHost), Meta(RelJpg)}
TwitterOptions == {NoMeta, Meta(<<>>), Meta(TwJpg), Meta(NoExt)}

HeroOptions ==
    { Element(ImgJpg, None), Element(NoExt, None), Element(None, None),
      Element(<<>>, RelJpg), Element(BadRef, None) }

\* The selector results with at most MaxHeroes selectors matching.
HeroMaps ==
    UNION { { [i \in 1..Len(hero_selectors) |-> IF i \in S THEN f[i] ELSE NoElement] :
              f \in [S -> HeroOptions] } :
            S \in {T \in SUBSET (1..Len(hero_selectors)) : Cardinality(T) <= MaxHeroes} }

Responses ==
    { Failure(kind) : kind \in RequestExceptions \cup {"ParseError"} }
    \cup { Page(og, tw, hero) : og \in MetaOptions, tw \in TwitterOptions,
             hero \in {NoHero, [NoHero EXCEPT ![1] = Element(ImgJpg, None)]} }
    \cup { Page(NoMeta, NoMeta, hero) : hero \in HeroMaps }

(***************************************************************************)
(* Initial states: one call of one of the four functions.                  *)
(***************************************************************************)
Idle ==
    /\ pc = "call"
    /\ requests = 0
    /\ image_url = None
    /\ verdict = FALSE
    /\ raised = FALSE
    /\ consulted = <<>>
    /\ log = <<>>

InitValid ==
    /\ fn = "is_valid_image_url"
    /\ url \in UrlInputs
    /\ entry = NoEntry /\ html = <<>> /\ base_url = <<>> /\ response = Failure("Timeout")
    /\ Idle

InitExtract ==
    /\ fn = "extract_first_image_from_html"
    /\ html \in HtmlInputs
    /\ base_url \in {<<>>, Base}
    /\ url = <<>> /\ entry = NoEntry /\ response = Failure("Timeout")
    /\ Idle

InitRss ==
    /\ fn = "find_rss_image"
    /\ entry \in CascadeEntries \cup MediaEntries \cup ThumbEntries \cup EnclosureEntries
                   \cup LinkEntries \cup HtmlEntries
    /\ base_url \in (IF entry \in HtmlEntries THEN {<<>>, Base} ELSE {<<>>})
    /\ url = <<>> /\ html = <<>> /\ response = Failure("Timeout")
    /\ Idle

InitScrape ==
    /\ fn = "scrape_image_from_url"
    /\ url \in {<<>>, Base}
    /\ response \in (IF url = <<>> THEN {Failure("Timeout")} ELSE Responses)
    /\ entry = NoEntry /\ html = <<>> /\ base_url = <<>>
    /\ Idle

Init == InitExtract \/ InitRss \/ InitScrape

(***************************************************************************)
(* is_valid_image_url(url)                                                 *)
(***************************************************************************)
ValidCall ==
    /\ fn = "is_valid_image_url" /\ pc = "call"
    /\ verdict' = is_valid_image_url(url)
    /\ pc' = "done"
    /\ UNCHANGED <<fn, url, entry, html, base_url, response, requests, image_url,
                   raised, consulted, log>>

(***************************************************************************)
(* extract_first_image_from_html(html, base_url)                           *)
(***************************************************************************)
ExtractCall ==
    /\ fn = "extract_first_image_from_html" /\ pc = "call"
    /\ image_url' = extract_first_image_from_html(html, base_url)
    /\ log' = log \o ExtractEvents(html, base_url)
    /\ pc' = "done"
    /\ UNCHANGED <<fn, url, entry, html, base_url, response, requests, verdict,
                   raised, consulted>>

(***************************************************************************)
(* find_rss_image(entry, base_url)                                         *)
(***************************************************************************)
RssUnchanged == UNCHANGED <<fn, url, entry, html, base_url, response, requests, verdict, raised>>

\* A tier's step: if entered, the scan's result replaces image_url when it
\* found one.
RssTier(name, entered, found, event, next) ==
    /\ image_url' = IF entered /\ found # None THEN found ELSE image_url
    /\ consulted' = IF entered THEN Append(consulted, name) ELSE consulted
    /\ log' = IF entered /\ found # None THEN Append(log, Event(event)) ELSE log
    /\ pc' = next
    /\ RssUnchanged

\* lines 169-187
RssMediaContent ==
    /\ fn = "find_rss_image" /\ pc = "call"
    /\ RssTier("media_content", HasItems(entry.media_content),
               ScanMediaContent(entry.media_content.items),
               "found_media_content_image", "media_thumbnail")

\* lines 189-196
RssMediaThumbnail ==
    /\ fn = "find_rss_image" /\ pc = "media_thumbnail"
    /\ RssTier("media_thumbnail", TierEntered(image_url, entry.media_thumbnail),
               ScanThumbnails(entry.media_thumbnail.items),
               "found_media_thumbnail", "enclosures")

\* lines 198-207
RssEnclosures ==
    /\ fn = "find_rss_image" /\ pc = "enclosures"
    /\ RssTier("enclosures", TierEntered(image_url, entry.enclosures),
               ScanEnclosures(entry.enclosures.items),
               "found_enclosure_image", "links")

\* lines 209-217
RssLinks ==
    /\ fn = "find_rss_image" /\ pc = "links"
    /\ RssTier("links", TierEntered(image_url, entry.links),
               ScanLinks(entry.links.items),
               "found_link_image", "html")

\* lines 219-237: the embedded-HTML tier and the return
RssHtml ==
    /\ fn = "find_rss_image" /\ pc = "html"
    /\ image_url' = IF ~Truthy(image_url) THEN HtmlTier(entry, base_url) ELSE image_url
    /\ consulted' = IF ~Truthy(image_url) THEN Append(consulted, "html") ELSE consulted
    /\ log' = Append(IF ~Truthy(image_url) /\ html_content(entry) # <<>>
                      THEN log \o ExtractEvents(html_content(entry), base_url)
                      ELSE log,
                      Event(IF Truthy(image_url') THEN "rss_image_found"
                            ELSE "no_rss_image_found"))
    /\ pc' = "done"
    /\ RssUnchanged

(***************************************************************************)
(* scrape_image_from_url(url)                                              *)
(***************************************************************************)
ScrapeUnchanged == UNCHANGED <<fn, url, entry, html, base_url, response, verdict>>

\* The except clauses of lines 101-106, or the exception leaving the call.
Except(kind) ==
    /\ image_url' = None
    /\ raised' = ~Caught(kind)
    /\ log' = IF Caught(kind) THEN Append(log, Event(ExceptEvent(kind))) ELSE log
    /\ pc' = "done"

\* A return statement of the try block.
Return(value, event) ==
    /\ image_url' = value
    /\ raised' = FALSE
    /\ log' = Append(log, event)
    /\ pc' = "done"

\* A tier that found nothing.
Continue(next) ==
    /\ pc' = next
    /\ UNCHANGED <<image_url, raised, log>>

\* lines 40-43
ScrapeStart ==
    /\ fn = "scrape_image_from_url" /\ pc = "call"
    /\ pc' = IF url = <<>> THEN "done" ELSE "fetch"
    /\ log' = IF url = <<>> THEN log ELSE Append(log, Event("scraping_image_from_url"))
    /\ UNCHANGED <<image_url, raised, requests, consulted>>
    /\ ScrapeUnchanged

\* lines 45-56: the request, raise_for_status and the parse
ScrapeFetch ==
    /\ fn = "scrape_image_from_url" /\ pc = "fetch"
    /\ requests' = requests + FetchCalls(response.outcome)
    /\ IF response.outcome = "ok" THEN Continue("og") ELSE Except(response.outcome)
    /\ UNCHANGED consulted
    /\ ScrapeUnchanged

\* lines 58-64
ScrapeOg ==
    /\ fn = "scrape_image_from_url" /\ pc = "og"
    /\ consulted' = Append(consulted, "og:image")
    /\ IF MetaTier(response.og) # None
       THEN Return(MetaTier(response.og), Event("found_og_image"))
       ELSE Continue("twitter")
    /\ UNCHANGED requests
    /\ ScrapeUnchanged

\* lines 66-72
ScrapeTwitter ==
    /\ fn = "scrape_image_from_url" /\ pc = "twitter"
    /\ consulted' = Append(consulted, "twitter:image")
    /\ IF MetaTier(response.tw) # None
       THEN Return(MetaTier(response.tw), Event("found_twitter_image"))
       ELSE Continue("hero")
    /\ UNCHANGED requests
    /\ ScrapeUnchanged

\* lines 94-99 and 104-106: how the selector loop ends the call
HeroOutcome(scan) ==
    IF scan.status = "found"
    THEN Return(scan.value, [event |-> "found_hero_image", selector |-> scan.selector])
    ELSE IF scan.status = "raise" THEN Except("ValueError")
    ELSE Return(None, Event("no_image_found_in_source"))

\* lines 74-99
ScrapeHero ==
    /\ fn = "scrape_image_from_url" /\ pc = "hero"
    /\ consulted' = Append(consulted, "selectors")
    /\ HeroOutcome(ScanHeroes(response.hero, 1, url))
    /\ UNCHANGED requests
    /\ ScrapeUnchanged

Next ==
    \/ ExtractCall
    \/ RssMediaContent
    \/ RssMediaThumbnail
    \/ RssEnclosures
    \/ RssLinks
    \/ RssHtml
    \/ ScrapeStart
    \/ ScrapeFetch
    \/ ScrapeOg
    \/ ScrapeTwitter
    \/ ScrapeHero

Spec == Init /\ [][Next]_vars

\* is_valid_image_url alone, over every url of UrlInputs
SpecValid == InitValid /\ [][ValidCall]_vars

(***************************************************************************)
(* Properties.                                                             *)
(***************************************************************************)
RssDone == fn = "find_rss_image" /\ pc = "done"
ScrapeDone == fn = "scrape_image_from_url" /\ pc = "done"
ExtractDone == fn = "extract_first_image_from_html" /\ pc = "done"
ValidDone == fn = "is_valid_image_url" /\ pc = "done"

ImageTyped(media) == media.type \in IMAGE_MIME_TYPES \/ media.medium = "image"
ValidAt(items) == {i \in 1..Len(items) : is_valid_image_url(Get(items[i].url))}
TypedAt(items) == {i \in 1..Len(items) : ImageTyped(items[i])}

\* The media_content tier has just run on a non-empty list.
AfterMediaContent ==
    fn = "find_rss_image" /\ pc = "media_thumbnail" /\ HasItems(entry.media_content)

\* C1 as stated: when the first image-typed descriptor of media_content has a
\* url that fails is_valid_image_url (and no descriptor before it was
\* accepted), the scan stops there and the tier yields no candidate, whatever
\* descriptors follow.
C1_StopsAtTypedInvalid ==
    AfterMediaContent =>
        LET items == entry.media_content.items
        IN  (TypedAt(items) # {} /\ \A i \in 1..Min(TypedAt(items)) : i \notin ValidAt(items))
                => image_url = None

\* C1 amended: the scan does not stop at an image-typed descriptor whose url
\* fails validation; the tier yields the url of the first descriptor, typed
\* or not, whose url passes is_valid_image_url, and nothing only when no
\* descriptor's url passes.
C1_FirstValidDescriptor ==
    AfterMediaContent =>
        LET items == entry.media_content.items
        IN  image_url = IF ValidAt(items) = {} THEN None
                        ELSE items[Min(ValidAt(items))].url

\* A typed descriptor with an invalid url comes first and a later descriptor
\* was taken.
C1_Witness ==
    /\ AfterMediaContent
    /\ ImageTyped(entry.media_content.items[1])
    /\ 1 \notin ValidAt(entry.media_content.items)
    /\ image_url # None

\* The candidate of each tier of find_rss_image taken alone, in tier order.
TierNames == <<"media_content", "media_thumbnail", "enclosures", "links", "html">>
TierCandidates(e, base) ==
    << IF HasItems(e.media_content) THEN ScanMediaContent(e.media_content.items) ELSE None,
       IF HasItems(e.media_thumbnail) THEN ScanThumbnails(e.media_thumbnail.items) ELSE None,
       IF HasItems(e.enclosures) THEN ScanEnclosures(e.enclosures.items) ELSE None,
       IF HasItems(e.links) THEN ScanLinks(e.links.items) ELSE None,
       HtmlTier(e, base) >>
Yielding(c) == {i \in 1..5 : c[i] # None}

\* C2: find_rss_image returns the candidate of the earliest tier, in the
\* order media_content, media_thumbnail, enclosures, links, embedded HTML,
\* that yields one; no tier after it is consulted; a tier whose field is
\* missing or empty is not entered; and None is returned when no tier yields.
C2_EarliestTierWins ==
    RssDone =>
        \A c \in {TierCandidates(entry, base_url)} :
            /\ Yielding(c) = {} => image_url = None
            /\ Yielding(c) # {} =>
                  \A first \in {Min(Yielding(c))} :
                      /\ image_url = c[first]
                      /\ \A i \in 1..5 : i > first => TierNames[i] \notin Range(consulted)
                      /\ TierNames[first] \in Range(consulted)
            /\ ~HasItems(entry.media_content) => "media_content" \notin Range(consulted)
            /\ ~HasItems(entry.media_thumbnail) => "media_thumbnail" \notin Range(consulted)
            /\ ~HasItems(entry.enclosures) => "enclosures" \notin Range(consulted)
            /\ ~HasItems(entry.links) => "links" \notin Range(consulted)
            /\ ( /\ HasItems(entry.media_content)
                 /\ entry.media_content.items[1].medium = "image"
                 /\ is_valid_image_url(Get(entry.media_content.items[1].url)) )
               => /\ image_url = entry.media_content.items[1].url
                  /\ "media_thumbnail" \notin Range(consulted)

\* media_content and media_thumbnail both hold a candidate, and the call
\* returned the media_content one.
C2_Witness ==
    /\ RssDone
    /\ \A c \in {TierCandidates(entry, base_url)} :
          /\ {1, 2} \subseteq Yielding(c)
          /\ c[1] # c[2]
          /\ image_url = c[1]

\* The first populated HTML source of an entry: content[0].value, else
\* summary, else description.
FirstPopulated(e) ==
    IF HasItems(e.content) /\ e.content.items[1].value # <<>> THEN e.content.items[1].value
    ELSE IF e.summary.present /\ e.summary.value # <<>> THEN e.summary.value
    ELSE IF e.description.present /\ e.description.value # <<>> THEN e.description.value
    ELSE <<>>

\* C3: when the embedded-HTML tier is reached, the text scanned is the first
\* non-empty one of content[0].value, summary, description, so the call
\* returns the first qualifying image of that text.
C3_FirstPopulatedSource ==
    (RssDone /\ "html" \in Range(consulted)) =>
        image_url = IF FirstPopulated(entry) = <<>> THEN None
                    ELSE extract_first_image_from_html(FirstPopulated(entry), base_url)

\* C4: scrape_image_from_url never raises, and a fetch that fails (transport
\* failure, non-2xx status, a body the parser rejects) ends the call with None.
C4_NeverRaises ==
    /\ ~raised
    /\ (ScrapeDone /\ url # <<>> /\ response.outcome # "ok") => image_url = None

\* The parser rejected the body and the call returned None.
C4_Witness ==
    /\ ScrapeDone
    /\ response.outcome = "ParseError"
    /\ requests = 1
    /\ image_url = None
    /\ ~raised

\* A meta tag whose content passes is_valid_image_url.
Approved(meta) ==
    meta.found /\ meta.content # None /\ meta.content # <<>> /\ is_valid_image_url(meta.content)

\* The candidates of the selector tier that pass is_valid_image_url.
HeroCandidates ==
    { HeroResolved(HeroSource(response.hero[i]), url).value :
        i \in { k \in 1..Len(hero_selectors) :
                  /\ response.hero[k].found
                  /\ Truthy(HeroSource(response.hero[k]))
                  /\ HeroResolved(HeroSource(response.hero[k]), url).ok
                  /\ is_valid_image_url(HeroResolved(HeroSource(response.hero[k]), url).value) } }

\* C5: on a fetched page the tiers are og:image, twitter:image, selectors; an
\* approved og:image content is returned unchanged with no other tier
\* evaluated; a rejected og:image or twitter:image content falls through to
\* the next tier.
C5_MetaTiersInOrder ==
    (ScrapeDone /\ url # <<>> /\ response.outcome = "ok") =>
        /\ Approved(response.og) =>
              image_url = response.og.content /\ consulted = <<"og:image">>
        /\ (~Approved(response.og) /\ Approved(response.tw)) =>
              image_url = response.tw.content /\ consulted = <<"og:image", "twitter:image">>
        /\ (~Approved(response.og) /\ ~Approved(response.tw)) =>
              /\ consulted = <<"og:image", "twitter:image", "selectors">>
              /\ image_url \in {None} \cup HeroCandidates

\* og:image holds a rejected content, and the call returned the approved
\* twitter:image content.
C5_Witness ==
    /\ ScrapeDone
    /\ response.outcome = "ok"
    /\ response.og.found /\ Truthy(response.og.content) /\ ~Approved(response.og)
    /\ Approved(response.tw)
    /\ image_url = response.tw.content

\* The extension set and the host allowlist, on urlparse's components.
HasExtension(text) == \E ext \in IMAGE_EXTENSIONS : EndsWith(Lower(text), ext)
OnAllowlist(netloc) == \E host \in known_image_hosts : Contains(Lower(netloc), host)

\* C6: is_valid_image_url is true exactly when the url parses with a scheme
\* and a host (urlparse's netloc) and the lowercased path ends with an image
\* extension or the lowercased host contains an allowlisted host; an
\* extension only in the query of a non-allowlisted host is rejected, any
\* path on an allowlisted host is accepted, and "" and unparsable strings
\* give false.
C6_ValidatorContract ==
    ValidDone =>
        \A p \in {urlparse(url)} :
        \A wellFormed \in {p.ok /\ p.scheme # <<>> /\ p.netloc # <<>>} :
            /\ verdict <=> (wellFormed /\ (HasExtension(p.path) \/ OnAllowlist(p.netloc)))
            /\ (wellFormed /\ ~OnAllowlist(p.netloc) /\ ~HasExtension(p.path)
                    /\ HasExtension(p.query)) => ~verdict
            /\ (wellFormed /\ OnAllowlist(p.netloc)) => verdict
            /\ (url = <<>> \/ ~p.ok) => ~verdict

\* A well-formed url on a host off the allowlist, with an extension in its
\* query only, was rejected.
C6_Witness ==
    /\ ValidDone
    /\ urlparse(url).ok /\ urlparse(url).scheme # <<>> /\ urlparse(url).netloc # <<>>
    /\ ~OnAllowlist(urlparse(url).netloc)
    /\ HasExtension(urlparse(url).query)
    /\ ~verdict

\* The <img> elements of a text that qualify: a non-empty src free of the
\* blocklist whose url, resolved against base, passes is_valid_image_url.
Qualifying(doc, base) ==
    { i \in 1..Len(find_all_img(doc)) :
        LET src == Get(find_all_img(doc)[i].src)
        IN  /\ src # <<>>
            /\ ~Skipped(src)
            /\ Resolved(src, base).ok
            /\ is_valid_image_url(Resolved(src, base).value) }

\* C7: extract_first_image_from_html returns the candidate of the first
\* qualifying <img> in document order, skipping the blocklisted and the
\* invalid ones before it, and None when none qualifies or parsing fails.
C7_FirstQualifyingImg ==
    ExtractDone =>
        image_url = IF ParseRaises(html) \/ Qualifying(html, base_url) = {} THEN None
                    ELSE Resolved(Get(find_all_img(html)[Min(Qualifying(html, base_url))].src),
                                  base_url).value

\* C8: scrape_image_from_url issues no request for an empty url and exactly
\* one otherwise, whatever the outcome and whatever the page holds.
C8_AtMostOneRequest ==
    fn = "scrape_image_from_url" =>
        /\ requests <= 1
        /\ url = <<>> => requests = 0
        /\ (pc = "done" /\ url = <<>>) => image_url = None
        /\ (pc = "done" /\ url # <<>>) => requests = 1

\* The request failed and the call ended after that one request.
C8_Witness ==
    /\ ScrapeDone
    /\ response.outcome \in RequestExceptions
    /\ requests = 1

\* The selectors whose first match has a candidate (src, else data-src,
\* resolved against the page url) that passes is_valid_image_url.
ApprovedSelectors ==
    { k \in 1..Len(hero_selectors) :
        /\ response.hero[k].found
        /\ Truthy(HeroSource(response.hero[k]))
        /\ HeroResolved(HeroSource(response.hero[k]), url).ok
        /\ is_valid_image_url(HeroResolved(HeroSource(response.hero[k]), url).value) }

C10_ResultsApproved ==
    /\ (RssDone /\ image_url # None) =>
          /\ image_url # <<>>
          /\ \/ is_valid_image_url(image_url)
             \/ \E i \in 1..Len(entry.enclosures.items) :
                   /\ entry.enclosures.items[i].type \in IMAGE_MIME_TYPES
                   /\ EnclosureUrl(entry.enclosures.items[i]) = image_url
             \/ \E i \in 1..Len(entry.links.items) :
                   /\ entry.links.items[i].type \in IMAGE_MIME_TYPES
                   /\ entry.links.items[i].href = image_url
    /\ ((ScrapeDone \/ ExtractDone) /\ image_url # None) => is_valid_image_url(image_url)

\* find_rss_image returned a relative url, which the validator rejects, from
\* an enclosure typed as an image.
C10_Witness ==
    /\ RssDone
    /\ image_url # None
    /\ ~is_valid_image_url(image_url)
    /\ \E i \in 1..Len(entry.enclosures.items) :
          /\ entry.enclosures.items[i].type \in IMAGE_MIME_TYPES
          /\ EnclosureUrl(entry.enclosures.items[i]) = image_url

====
